---- MODULE Spec2Model ----
(***************************************************************************)
(* Property CGT calculator: the date parser, the period validator and the  *)
(* apportionment engine of main.py, and the web handler of app.py that     *)
(* collects a form, validates the periods and computes the result.         *)
(*                                                                         *)
(* Python floats are modelled bit for bit (IEEE-754 binary64, round to     *)
(* nearest, ties to even): a float is sgn * man * 2^exp, the significand   *)
(* man an odd natural number kept as a sequence of limbs.  Texts are       *)
(* sequences of one-character strings, so that parsing is computed.        *)
(***************************************************************************)
EXTENDS Integers, Sequences, FiniteSets, TLC

\* the value of a function of one argument: With([v \in {e} |-> body]) is
\* body with the local variable v set to e
With(f) == f[CHOOSE v \in DOMAIN f : TRUE]

\* =====================================================================
\* Natural numbers of any size: limbs in base 2^LimbBits, least
\* significant first, no leading zero limb.
\* =====================================================================
LimbBits == 15
BASE == 2 ^ LimbBits
\* significand width of a Python float (binary64)
MantBits == 53

RECURSIVE Pow2(_)
Pow2(n) == IF n = 0 THEN 1 ELSE 2 * Pow2(n - 1)

RECURSIVE BNorm(_)
BNorm(a) ==
    IF a = <<>> THEN <<>>
    ELSE IF a[Len(a)] = 0 THEN BNorm(SubSeq(a, 1, Len(a) - 1)) ELSE a

RECURSIVE BFromInt(_)
BFromInt(n) == IF n = 0 THEN <<>> ELSE <<n % BASE>> \o BFromInt(n \div BASE)

Limb(a, i) == IF i <= Len(a) THEN a[i] ELSE 0

RECURSIVE BAddAt(_, _, _, _)
BAddAt(a, b, i, c) ==
    IF i > Len(a) /\ i > Len(b)
    THEN IF c = 0 THEN <<>> ELSE <<c>>
    ELSE LET t == Limb(a, i) + Limb(b, i) + c
         IN  <<t % BASE>> \o BAddAt(a, b, i + 1, t \div BASE)

BAdd(a, b) == BAddAt(a, b, 1, 0)

\* a - b for a >= b
RECURSIVE BSubAt(_, _, _, _)
BSubAt(a, b, i, c) ==
    IF i > Len(a) THEN <<>>
    ELSE LET t == Limb(a, i) - Limb(b, i) - c
         IN  IF t < 0 THEN <<t + BASE>> \o BSubAt(a, b, i + 1, 1)
                      ELSE <<t>> \o BSubAt(a, b, i + 1, 0)

BSub(a, b) == BNorm(BSubAt(a, b, 1, 0))

\* -1, 0, 1 as a < b, a = b, a > b
RECURSIVE BCmpAt(_, _, _)
BCmpAt(a, b, i) ==
    IF i = 0 THEN 0
    ELSE IF a[i] < b[i] THEN -1
    ELSE IF a[i] > b[i] THEN 1
    ELSE BCmpAt(a, b, i - 1)

BCmp(a, b) ==
    IF Len(a) < Len(b) THEN -1
    ELSE IF Len(a) > Len(b) THEN 1
    ELSE BCmpAt(a, b, Len(a))

\* a * n for 0 <= n <= BASE
RECURSIVE BMulSmallAt(_, _, _, _)
BMulSmallAt(a, n, i, c) ==
    IF i > Len(a) THEN BFromInt(c)
    ELSE LET t == a[i] * n + c
         IN  <<t % BASE>> \o BMulSmallAt(a, n, i + 1, t \div BASE)

BMulSmall(a, n) == BNorm(BMulSmallAt(a, n, 1, 0))

RECURSIVE BMulAt(_, _, _)
BMulAt(a, b, i) ==
    IF i > Len(b) THEN <<>>
    ELSE BAdd(BMulSmall(a, b[i]), <<0>> \o BMulAt(a, b, i + 1))

BMul(a, b) == BNorm(BMulAt(a, b, 1))

\* quotient and remainder of a by n, 0 < n <= BASE
RECURSIVE BDivSmallAt(_, _, _, _)
BDivSmallAt(a, n, i, r) ==
    IF i = 0 THEN [q |-> <<>>, r |-> r]
    ELSE LET t    == r * BASE + a[i]
             rest == BDivSmallAt(a, n, i - 1, t % n)
         IN  [q |-> rest.q \o <<t \div n>>, r |-> rest.r]

BDivSmall(a, n) ==
    LET d == BDivSmallAt(a, n, Len(a), 0) IN [q |-> BNorm(d.q), r |-> d.r]

Zeros(k) == [i \in 1..k |-> 0]

BShl(a, s) ==
    IF a = <<>> THEN <<>>
    ELSE Zeros(s \div LimbBits) \o BMulSmall(a, Pow2(s % LimbBits))

BShr(a, s) ==
    LET k == s \div LimbBits
    IN  IF k >= Len(a) THEN <<>>
        ELSE BDivSmall(SubSeq(a, k + 1, Len(a)), Pow2(s % LimbBits)).q

RECURSIVE IntBitLen(_)
IntBitLen(n) == IF n = 0 THEN 0 ELSE 1 + IntBitLen(n \div 2)

BitLen(a) == IF a = <<>> THEN 0 ELSE LimbBits * (Len(a) - 1) + IntBitLen(a[Len(a)])

BIsOdd(a) == a /= <<>> /\ a[1] % 2 = 1

RECURSIVE IntTrailingZeros(_)
IntTrailingZeros(n) == IF n % 2 = 1 THEN 0 ELSE 1 + IntTrailingZeros(n \div 2)

RECURSIVE BTrailingZeros(_)
BTrailingZeros(a) ==
    IF a[1] = 0 THEN LimbBits + BTrailingZeros(Tail(a)) ELSE IntTrailingZeros(a[1])

\* =====================================================================
\* Python float: sgn * man * 2^exp with man odd, or zero.
\* =====================================================================
FZero == [sgn |-> 1, man |-> <<>>, exp |-> 0]

Canon(sgn, m, e) ==
    IF m = <<>> THEN FZero
    ELSE LET z == BTrailingZeros(m)
         IN  [sgn |-> sgn, man |-> BShr(m, z), exp |-> e + z]

\* the float nearest to sgn * m * 2^e (plus a little more when sticky),
\* ties to even
RoundNearestEven(sgn, m, e, sticky) ==
    IF BitLen(m) <= MantBits THEN Canon(sgn, m, e)
    ELSE With([s \in {BitLen(m) - MantBits} |->
         With([q \in {BShr(m, s)} |->
         With([c \in {BCmp(BSub(m, BShl(q, s)), BShl(<<1>>, s - 1))} |->
             Canon(sgn,
                   IF c > 0 \/ (c = 0 /\ (sticky \/ BIsOdd(q)))
                   THEN BAdd(q, <<1>>) ELSE q,
                   e + s)])])])

\* float(n) for an int n
FromInt(n) == IF n < 0 THEN Canon(-1, BFromInt(-n), 0) ELSE Canon(1, BFromInt(n), 0)

FNeg(a) == IF a.man = <<>> THEN a ELSE [a EXCEPT !.sgn = -a.sgn]

\* a + b
FAdd(a, b) ==
    IF a.man = <<>> THEN b
    ELSE IF b.man = <<>> THEN a
    ELSE With([e \in {IF a.exp < b.exp THEN a.exp ELSE b.exp} |->
         With([ma \in {BShl(a.man, a.exp - e)} |->
         With([mb \in {BShl(b.man, b.exp - e)} |->
         With([c \in {BCmp(ma, mb)} |->
             RoundNearestEven(
                 IF a.sgn = b.sgn \/ c > 0 THEN a.sgn ELSE b.sgn,
                 IF a.sgn = b.sgn THEN BAdd(ma, mb)
                 ELSE IF c > 0 THEN BSub(ma, mb) ELSE BSub(mb, ma),
                 e, FALSE)])])])])

\* a - b
FSub(a, b) == FAdd(a, FNeg(b))

\* a * b
FMul(a, b) ==
    IF a.man = <<>> \/ b.man = <<>> THEN FZero
    ELSE RoundNearestEven(a.sgn * b.sgn, BMul(a.man, b.man), a.exp + b.exp, FALSE)

\* a / n for an int 0 < n <= BASE; the quotient keeps more than MantBits bits
DivShift == 5 * LimbBits

FDivInt(a, n) ==
    IF a.man = <<>> THEN FZero
    ELSE With([d \in {BDivSmall(BShl(a.man, DivShift), n)} |->
             RoundNearestEven(a.sgn, d.q, a.exp - DivShift, d.r /= 0)])

\* round(x, 4): the float nearest to the 4-place decimal nearest to x,
\* ties to even on the exact value of x
RoundUnit == 10000

PyRound4(x) ==
    IF x.man = <<>> \/ x.exp >= 0 THEN x
    ELSE With([n \in {BMulSmall(x.man, RoundUnit)} |->
         With([q \in {BShr(n, -x.exp)} |->
         With([c \in {BCmp(BSub(n, BShl(q, -x.exp)), BShl(<<1>>, -x.exp - 1))} |->
             FDivInt(Canon(x.sgn,
                           IF c > 0 \/ (c = 0 /\ BIsOdd(q)) THEN BAdd(q, <<1>>) ELSE q,
                           0),
                     RoundUnit)])])])

\* =====================================================================
\* Texts: sequences of one-character strings.
\* =====================================================================
Digits == <<"0", "1", "2", "3", "4", "5", "6", "7", "8", "9">>

IsDigit(c) == \E i \in 1..Len(Digits) : Digits[i] = c

DigitVal(c) == (CHOOSE i \in 1..Len(Digits) : Digits[i] = c) - 1

IsSpace(c) == c = " "

\* str.strip()
RECURSIVE LStrip(_)
LStrip(t) == IF t /= <<>> /\ IsSpace(Head(t)) THEN LStrip(Tail(t)) ELSE t

RECURSIVE RStrip(_)
RStrip(t) ==
    IF t /= <<>> /\ IsSpace(t[Len(t)]) THEN RStrip(SubSeq(t, 1, Len(t) - 1)) ELSE t

Strip(t) == RStrip(LStrip(t))

\* the fields of t between the separators sep
RECURSIVE Split(_, _)
Split(t, sep) ==
    IF \A i \in 1..Len(t) : t[i] /= sep THEN <<t>>
    ELSE LET i == CHOOSE k \in 1..Len(t) :
                      t[k] = sep /\ \A j \in 1..(k - 1) : t[j] /= sep
         IN  <<SubSeq(t, 1, i - 1)>> \o Split(SubSeq(t, i + 1, Len(t)), sep)

AllDigits(f) == f /= <<>> /\ \A i \in 1..Len(f) : IsDigit(f[i])

RECURSIVE DecVal(_)
DecVal(f) ==
    IF f = <<>> THEN 0
    ELSE DecVal(SubSeq(f, 1, Len(f) - 1)) * 10 + DigitVal(f[Len(f)])

\* =====================================================================
\* datetime.strptime for the two formats of parse_date; a datetime at
\* midnight is its proleptic Gregorian ordinal, so that (a - b).days is
\* a - b.
\* =====================================================================
NonZeroDigit(c) == IsDigit(c) /\ c /= "0"

\* %Y: \d\d\d\d
YearField(f) == Len(f) = 4 /\ AllDigits(f)

\* %m: 1[0-2]|0[1-9]|[1-9]
MonthField(f) ==
    \/ Len(f) = 1 /\ NonZeroDigit(f[1])
    \/ Len(f) = 2 /\ f[1] = "1" /\ f[2] \in {"0", "1", "2"}
    \/ Len(f) = 2 /\ f[1] = "0" /\ NonZeroDigit(f[2])

\* %d: 3[0-1]|[1-2]\d|0[1-9]|[1-9]| [1-9]
DayField(f) ==
    \/ Len(f) = 1 /\ NonZeroDigit(f[1])
    \/ Len(f) = 2 /\ f[1] = "3" /\ f[2] \in {"0", "1"}
    \/ Len(f) = 2 /\ f[1] \in {"1", "2"} /\ IsDigit(f[2])
    \/ Len(f) = 2 /\ f[1] \in {"0", " "} /\ NonZeroDigit(f[2])

IsLeap(y) == y % 4 = 0 /\ (y % 100 /= 0 \/ y % 400 = 0)

DaysInMonth(y, m) ==
    IF m = 2 THEN (IF IsLeap(y) THEN 29 ELSE 28)
    ELSE IF m \in {4, 6, 9, 11} THEN 30 ELSE 31

RECURSIVE DaysBeforeMonth(_, _)
DaysBeforeMonth(y, m) ==
    IF m = 1 THEN 0 ELSE DaysBeforeMonth(y, m - 1) + DaysInMonth(y, m - 1)

DaysBeforeYear(y) ==
    (y - 1) * 365 + (y - 1) \div 4 - (y - 1) \div 100 + (y - 1) \div 400

Ordinal(y, m, d) == DaysBeforeYear(y) + DaysBeforeMonth(y, m) + d

NoDate == [ok |-> FALSE, date |-> 0]

MakeDate(yf, mf, df) ==
    IF YearField(yf) /\ MonthField(mf) /\ DayField(df)
    THEN With([y \in {DecVal(yf)} |->
         With([m \in {DecVal(mf)} |->
         With([d \in {IF df[1] = " " THEN DigitVal(df[2]) ELSE DecVal(df)} |->
             IF y >= 1 /\ d <= DaysInMonth(y, m)
             THEN [ok |-> TRUE, date |-> Ordinal(y, m, d)]
             ELSE NoDate])])])
    ELSE NoDate

\* datetime.strptime(t, "%Y-%m-%d")
StrptimeYmd(t) ==
    With([f \in {Split(t, "-")} |->
        IF Len(f) = 3 THEN MakeDate(f[1], f[2], f[3]) ELSE NoDate])

\* datetime.strptime(t, "%d/%m/%Y")
StrptimeDmy(t) ==
    With([f \in {Split(t, "/")} |->
        IF Len(f) = 3 THEN MakeDate(f[3], f[2], f[1]) ELSE NoDate])

\* parse_date: [ok, date], not ok when it raises ValueError
parse_date(date_str) ==
    With([t \in {Strip(date_str)} |->
    With([ymd \in {StrptimeYmd(t)} |->
        IF ymd.ok THEN ymd ELSE StrptimeDmy(t)])])

\* float(text) of a plain decimal text: optional sign, digits, optional
\* point and at most four more digits; any other text of the model's
\* inputs raises ValueError.  [ok, val]
NoFloat == [ok |-> FALSE, val |-> FZero]

\* the float of the decimal with the digits ip before the point and fp after
DecimalFloat(neg, ip, fp) ==
    IF /\ ip \o fp /= <<>>
       /\ \A i \in 1..Len(ip) : IsDigit(ip[i])
       /\ \A i \in 1..Len(fp) : IsDigit(fp[i])
    THEN With([v \in {FDivInt(FromInt(DecVal(ip \o fp)), 10 ^ Len(fp))} |->
             [ok |-> TRUE, val |-> IF neg THEN FNeg(v) ELSE v]])
    ELSE NoFloat

ParseFloat(text) ==
    With([t \in {Strip(text)} |->
    With([body \in {IF t /= <<>> /\ t[1] \in {"-", "+"} THEN Tail(t) ELSE t} |->
    With([f \in {Split(body, ".")} |->
        IF Len(f) = 1 THEN DecimalFloat(t /= <<>> /\ t[1] = "-", f[1], <<>>)
        ELSE IF Len(f) = 2 THEN DecimalFloat(t /= <<>> /\ t[1] = "-", f[1], f[2])
        ELSE NoFloat])])])

\* =====================================================================
\* main.py
\* =====================================================================
None == [type |-> "NoneType"]

\* ValueError(message); label is the period label quoted in the message
ValueError(msg, label) == [exc |-> "ValueError", msg |-> msg, label |-> label]

Raise(e) == [raised |-> TRUE, error |-> e, value |-> None]

Return(v) == [raised |-> FALSE, error |-> None, value |-> v]

InvalidDateFormat == ValueError("Invalid date format. Use YYYY-MM-DD or DD/MM/YYYY", "")

NoPeriods == ValueError("You must enter at least one usage period.", "")

EndNotAfterStart(label) == ValueError("Period end date must be AFTER start date.", label)

SellNotAfterBuy == ValueError("Sell date must be after buy date.", "")

Min(a, b) == IF a < b THEN a ELSE b

Max(a, b) == IF a > b THEN a ELSE b

\* days_overlap(start1, end1, start2, end2)
days_overlap(start1, end1, start2, end2) ==
    LET start == Max(start1, start2)
        end   == Min(end1, end2)
    IN  IF end <= start THEN 0 ELSE end - start

\* validate_periods, lines 34-43: the parsed periods, or the first error
RECURSIVE ParsePeriods(_, _)
ParsePeriods(periods, i) ==
    IF i > Len(periods) THEN Return(<<>>)
    ELSE With([p \in {periods[i]} |->
         With([s \in {parse_date(p.start)} |->
         With([e \in {parse_date(p.end)} |->
             IF ~s.ok \/ ~e.ok THEN Raise(InvalidDateFormat)
             ELSE IF e.date <= s.date THEN Raise(EndNotAfterStart(p.label))
             ELSE With([rest \in {ParsePeriods(periods, i + 1)} |->
                      IF rest.raised THEN rest
                      ELSE Return(<<[label |-> p.label, start |-> s.date,
                                     end |-> e.date]>> \o rest.value)])])])])

\* list.sort(key = start): stable
InsertByStart(sorted, x) ==
    LET k == Cardinality({i \in 1..Len(sorted) : sorted[i].start <= x.start})
    IN  SubSeq(sorted, 1, k) \o <<x>> \o SubSeq(sorted, k + 1, Len(sorted))

RECURSIVE SortByStart(_)
SortByStart(parsed) ==
    IF Len(parsed) <= 1 THEN parsed
    ELSE InsertByStart(SortByStart(SubSeq(parsed, 1, Len(parsed) - 1)),
                       parsed[Len(parsed)])

\* the warning texts: the kind and the values formatted into the message
GapBefore(days, from, to) ==
    [kind |-> "gap BEFORE the first period", days |-> days, from |-> from, to |-> to]

GapAfter(days, from, to) ==
    [kind |-> "gap AFTER the last period", days |-> days, from |-> from, to |-> to]

Overlap(prev, cur, days) ==
    [kind |-> "overlap", first |-> prev, second |-> cur, days |-> days]

GapBetween(prev, cur, days) ==
    [kind |-> "gap between", first |-> prev, second |-> cur, days |-> days]

\* validate_periods, lines 50-62
CoverageWarnings(parsed, d_buy, d_sell) ==
    (IF parsed[1].start > d_buy
     THEN <<GapBefore(parsed[1].start - d_buy, d_buy, parsed[1].start)>> ELSE <<>>)
    \o
    (IF parsed[Len(parsed)].end < d_sell
     THEN <<GapAfter(d_sell - parsed[Len(parsed)].end, parsed[Len(parsed)].end, d_sell)>>
     ELSE <<>>)

\* the loop with every period taken as the next frontier, whatever its end
RECURSIVE NeighbourWarnings(_, _, _)
NeighbourWarnings(parsed, i, prev) ==
    IF i > Len(parsed) THEN <<>>
    ELSE With([cur \in {parsed[i]} |->
             (IF cur.start < prev.end
              THEN <<Overlap(prev.label, cur.label, prev.end - cur.start)>>
              ELSE IF cur.start > prev.end
              THEN <<GapBetween(prev.label, cur.label, cur.start - prev.end)>>
              ELSE <<>>)
             \o NeighbourWarnings(parsed, i + 1, cur)])

\* validate_periods, lines 65-82: the loop from parsed[i] on
RECURSIVE AdjacentWarnings(_, _, _)
AdjacentWarnings(parsed, i, prev) ==
    IF i > Len(parsed) THEN <<>>
    ELSE With([cur \in {parsed[i]} |->
             (IF cur.start < prev.end
              THEN <<Overlap(prev.label, cur.label, prev.end - cur.start)>>
              ELSE IF cur.start > prev.end
              THEN <<GapBetween(prev.label, cur.label, cur.start - prev.end)>>
              ELSE <<>>)
             \o AdjacentWarnings(parsed, i + 1,
                                 IF cur.end > prev.end THEN cur ELSE prev)])

\* validate_periods with the two dates parsed before the list is looked at
validate_dates_first(buy_date, sell_date, periods) ==
    With([d_buy \in {parse_date(buy_date)} |->
    With([d_sell \in {parse_date(sell_date)} |->
        IF ~d_buy.ok \/ ~d_sell.ok THEN Raise(InvalidDateFormat)
        ELSE IF periods = <<>> THEN Raise(NoPeriods)
        ELSE With([pp \in {ParsePeriods(periods, 1)} |->
             IF pp.raised THEN pp
             ELSE With([parsed \in {SortByStart(pp.value)} |->
                      Return(CoverageWarnings(parsed, d_buy.date, d_sell.date)
                             \o AdjacentWarnings(parsed, 2, parsed[1]))])])])])

\* validate_periods(buy_date, sell_date, periods): raises, or returns warnings
validate_periods(buy_date, sell_date, periods) ==
    IF periods = <<>> THEN Raise(NoPeriods)
    ELSE With([d_buy \in {parse_date(buy_date)} |->
         With([d_sell \in {parse_date(sell_date)} |->
             IF ~d_buy.ok \/ ~d_sell.ok THEN Raise(InvalidDateFormat)
             ELSE With([pp \in {ParsePeriods(periods, 1)} |->
                  IF pp.raised THEN pp
                  ELSE With([parsed \in {SortByStart(pp.value)} |->
                           Return(CoverageWarnings(parsed, d_buy.date, d_sell.date)
                                  \o AdjacentWarnings(parsed, 2, parsed[1]))])])])])

\* calculate_cgt_periods, lines 116-140: the loop from periods[i] on
RECURSIVE Apportion(_, _, _, _, _)
Apportion(periods, i, d_buy, d_sell, acc) ==
    IF i > Len(periods) THEN Return(acc)
    ELSE With([p \in {periods[i]} |->
         With([p_start \in {parse_date(p.start)} |->
         With([p_end \in {parse_date(p.end)} |->
             IF ~p_start.ok \/ ~p_end.ok THEN Raise(InvalidDateFormat)
             ELSE
             With([tf \in {p.taxable_factor} |->
             With([overlap \in {days_overlap(d_buy, d_sell, p_start.date, p_end.date)} |->
             With([period_taxable \in {FMul(FromInt(overlap), tf)} |->
             With([period_exempt \in {FMul(FromInt(overlap), FSub(FromInt(1), tf))} |->
                 Apportion(periods, i + 1, d_buy, d_sell,
                     [taxable_days   |-> FAdd(acc.taxable_days, period_taxable),
                      exempt_days    |-> FAdd(acc.exempt_days, period_exempt),
                      period_details |-> Append(acc.period_details,
                          [label          |-> p.label,
                           start          |-> p.start,
                           end            |-> p.end,
                           overlap_days   |-> overlap,
                           taxable_factor |-> tf,
                           taxable_days   |-> period_taxable,
                           exempt_days    |-> period_exempt])])])])])])])])])

DiscountDays == 365

\* 0.5
Half == FDivInt(FromInt(1), 2)

\* calculate_cgt_periods: raises, or returns the result dict
calculate_cgt_periods(buy_price, buy_date, sell_price, sell_date, ownership_percentage, capital_works_addback, periods) ==
    With([d_buy \in {parse_date(buy_date)} |->
    With([d_sell \in {parse_date(sell_date)} |->
        IF ~d_buy.ok \/ ~d_sell.ok THEN Raise(InvalidDateFormat)
        ELSE IF d_sell.date <= d_buy.date THEN Raise(SellNotAfterBuy)
        ELSE
        With([holding_days \in {d_sell.date - d_buy.date} |->
        With([adjusted_cost_base \in {FAdd(buy_price, capital_works_addback)} |->
        With([raw_gain \in {FSub(sell_price, adjusted_cost_base)} |->
        With([owner_gain \in {FMul(raw_gain, ownership_percentage)} |->
        With([loop \in {Apportion(periods, 1, d_buy.date, d_sell.date,
                 [taxable_days |-> FZero, exempt_days |-> FZero,
                  period_details |-> <<>>])} |->
            IF loop.raised THEN loop
            ELSE
            With([taxable_days \in {loop.value.taxable_days} |->
            With([exempt_days \in {loop.value.exempt_days} |->
            With([total_covered \in {FAdd(taxable_days, exempt_days)} |->
            With([uncovered_days \in {FSub(FromInt(holding_days), total_covered)} |->
            With([taxable_fraction \in {IF holding_days > 0 THEN FDivInt(taxable_days, holding_days)
                 ELSE FZero} |->
            With([exempt_fraction \in {FSub(FromInt(1), taxable_fraction)} |->
            With([taxable_gain_before_discount \in {FMul(owner_gain, taxable_fraction)} |->
            With([discount_rate \in {IF holding_days >= DiscountDays THEN Half ELSE FZero} |->
            With([discounted_gain \in {FMul(taxable_gain_before_discount, FSub(FromInt(1), discount_rate))}
                 |->
                Return(
                   "Holding days" :> holding_days
                @@ "Taxable days" :> taxable_days
                @@ "Exempt days" :> exempt_days
                @@ "Uncovered days" :> uncovered_days
                @@ "Taxable fraction" :> PyRound4(taxable_fraction)
                @@ "Exempt fraction" :> PyRound4(exempt_fraction)
                @@ "Original cost base" :> buy_price
                @@ "Capital works add-back" :> capital_works_addback
                @@ "Adjusted cost base" :> adjusted_cost_base
                @@ "Sell price" :> sell_price
                @@ "Raw capital gain" :> raw_gain
                @@ "Ownership adjusted gain" :> owner_gain
                @@ "Taxable gain before discount" :> taxable_gain_before_discount
                @@ "Discount rate" :> discount_rate
                @@ "Final taxable gain" :> discounted_gain
                @@ "Period breakdown" :> loop.value.period_details
                )])])])])])])])])])])])])])])])])

\* =====================================================================
\* app.py: index.  A form is the submitted texts: the six basic fields
\* and rows, one [label, start, end, usage, taxable_pct] per period row.
\* =====================================================================
NotAFloat == ValueError("could not convert string to float", "")

UsageRequired(i) == ValueError("usage type is required.", ToString(i))

TaxablePctRequired(i) == ValueError("taxable % required for partial usage.", ToString(i))

\* f"Period {i}"
PeriodLabel(i) == "Period " \o ToString(i)

PercentUnit == 100

\* the taxable factor of a row's usage
TaxableFactor(row) ==
    IF row.usage = "main" THEN Return(FZero)
    ELSE IF row.usage = "rental" THEN Return(FromInt(1))
    ELSE With([pct \in {ParseFloat(row.taxable_pct)} |->
             IF pct.ok THEN Return(FDivInt(pct.val, PercentUnit)) ELSE Raise(NotAFloat)])

\* index, lines 197-234: the loop from row i on
RECURSIVE CollectPeriods(_, _)
CollectPeriods(rows, i) ==
    IF i > Len(rows) THEN Return(<<>>)
    ELSE With([row \in {rows[i]} |->
         With([start \in {Strip(row.start)} |->
         With([end \in {Strip(row.end)} |->
             IF start = <<>> \/ end = <<>> THEN CollectPeriods(rows, i + 1)
             ELSE IF row.usage = "" THEN Raise(UsageRequired(i))
             ELSE IF row.usage \notin {"main", "rental"} /\ Strip(row.taxable_pct) = <<>>
             THEN Raise(TaxablePctRequired(i))
             ELSE With([tf \in {TaxableFactor(row)} |->
                  IF tf.raised THEN tf
                  ELSE With([rest \in {CollectPeriods(rows, i + 1)} |->
                       IF rest.raised THEN rest
                       ELSE Return(<<[label |-> IF row.label = "" THEN PeriodLabel(i)
                                                ELSE row.label,
                                      start |-> start,
                                      end |-> end,
                                      taxable_factor |-> tf.value]>> \o rest.value)])])])])])

\* index, lines 181-234: the arguments collected from the form, or the
\* first error
Collect(form) ==
    With([buy_price \in {ParseFloat(form.buy_price)} |->
    With([sell_price \in {ParseFloat(form.sell_price)} |->
    With([ownership \in {ParseFloat(form.ownership)} |->
    With([capital_works \in {ParseFloat(form.capital_works)} |->
        IF ~buy_price.ok \/ ~sell_price.ok \/ ~ownership.ok \/ ~capital_works.ok
        THEN Raise(NotAFloat)
        ELSE With([periods \in {CollectPeriods(form.rows, 1)} |->
             IF periods.raised THEN periods
             ELSE Return([buy_price     |-> buy_price.val,
                          sell_price    |-> sell_price.val,
                          ownership     |-> ownership.val,
                          capital_works |-> capital_works.val,
                          buy_date      |-> Strip(form.buy_date),
                          sell_date     |-> Strip(form.sell_date),
                          periods       |-> periods.value])])])])])])

Calculate(args) ==
    calculate_cgt_periods(args.buy_price, args.buy_date, args.sell_price, args.sell_date,
                          args.ownership, args.capital_works, args.periods)

\* what index renders, and the functions of main.py it called
Page(e, w, r, c) == [error |-> e, warnings |-> w, result |-> r, calls |-> c]

\* index(): a GET renders the empty page, a POST works on the form
index(method, form) ==
    IF method /= "POST" THEN Page(None, <<>>, None, <<>>)
    ELSE With([args \in {Collect(form)} |->
         IF args.raised THEN Page(args.error, <<>>, None, <<>>)
         ELSE With([v \in {validate_periods(args.value.buy_date, args.value.sell_date,
                                    args.value.periods)} |->
              IF v.raised THEN Page(v.error, <<>>, None, <<"validate_periods">>)
              ELSE With([r \in {Calculate(args.value)} |->
                   IF r.raised
                   THEN Page(r.error, v.value, None,
                             <<"validate_periods", "calculate_cgt_periods">>)
                   ELSE Page(None, v.value, r.value,
                             <<"validate_periods", "calculate_cgt_periods">>)])])])

\* =====================================================================
\* The inputs.  Days are numbered from FirstDay (2020-02-27, so that the
\* dates cross a leap day and a month end).
\* =====================================================================
MaxDay == 3

MaxPeriods == 3

Days == 0..MaxDay

FirstDay == Ordinal(2020, 2, 27)

YmdOf(day) ==
    CHOOSE r \in [y : {2020}, m : 1..12, d : 1..31] :
        r.d <= DaysInMonth(r.y, r.m) /\ Ordinal(r.y, r.m, r.d) = FirstDay + day

TwoDigits(n) == <<Digits[(n \div 10) + 1], Digits[(n % 10) + 1]>>

FourDigits(n) == TwoDigits(n \div 100) \o TwoDigits(n % 100)

\* YYYY-MM-DD
IsoTextOf ==
    [day \in Days |->
        LET r == YmdOf(day)
        IN  FourDigits(r.y) \o <<"-">> \o TwoDigits(r.m) \o <<"-">> \o TwoDigits(r.d)]

IsoText(day) == IsoTextOf[day]

\* DD/MM/YYYY
DmyTextOf ==
    [day \in Days |->
        LET r == YmdOf(day)
        IN  TwoDigits(r.d) \o <<"/">> \o TwoDigits(r.m) \o <<"/">> \o FourDigits(r.y)]

DmyText(day) == DmyTextOf[day]

IsoTexts == {IsoText(d) : d \in Days}

Blank == <<>>

\* a text that is no date, a day that does not exist, a padded date
OtherTexts ==
    { <<"x">>,
      <<"2", "0", "2", "0", "-", "0", "2", "-", "3", "0">>,
      <<" ">> \o IsoText(0) \o <<" ">>,
      Blank }

DateTexts == IsoTexts \cup {DmyText(d) : d \in Days} \cup OtherTexts

\* main residence, full rental, partial use at 1.25 %
GoodUsages ==
    { [usage |-> "main", taxable_pct |-> Blank],
      [usage |-> "rental", taxable_pct |-> Blank],
      [usage |-> "partial", taxable_pct |-> <<"1", ".", "2", "5">>] }

AllUsages ==
    GoodUsages \cup
    { [usage |-> "", taxable_pct |-> Blank],
      [usage |-> "partial", taxable_pct |-> Blank],
      [usage |-> "partial", taxable_pct |-> <<"x">>] }

Row(label, start, end, u) ==
    [label |-> label, start |-> start, end |-> end,
     usage |-> u.usage, taxable_pct |-> u.taxable_pct]

Intervals == {p \in Days \X Days : p[1] < p[2]}

\* rows of a period that ends after it starts, in any of the usages
ValidRows == {Row("", IsoText(p[1]), IsoText(p[2]), u) : p \in Intervals, u \in GoodUsages}

\* rows of any two days, also ending on or before the start
AnyRows == {Row("", IsoText(a), IsoText(b), u) : a \in Days, b \in Days, u \in GoodUsages}

\* rows in any text and any usage, labelled
TextRows == {Row("main", s, e, u) : s \in DateTexts, e \in DateTexts, u \in AllUsages}

BlankRow == Row("", Blank, Blank, [usage |-> "", taxable_pct |-> Blank])

Sale(buy_price, sell_price, ownership, capital_works) ==
    [buy_price |-> buy_price, sell_price |-> sell_price,
     ownership |-> ownership, capital_works |-> capital_works]

\* 100 -> 400, owned in full
Gain == Sale(<<"1", "0", "0">>, <<"4", "0", "0">>, <<"1", ".", "0">>, <<"0">>)

\* 100 -> 90, half owned, 10 of capital works; and a missing sell price
OtherSales ==
    { Sale(<<"1", "0", "0">>, <<"9", "0">>, <<"0", ".", "5">>, <<"1", "0">>),
      Sale(<<"1", "0", "0">>, Blank, <<"1", ".", "0">>, <<"0">>) }

Form(sale, buy_date, sell_date, rows) ==
    [buy_price |-> sale.buy_price, buy_date |-> buy_date,
     sell_price |-> sale.sell_price, sell_date |-> sell_date,
     ownership |-> sale.ownership, capital_works |-> sale.capital_works,
     rows |-> rows]

\* index, lines 163-176: the form of a GET
EmptyForm ==
    Form(Sale(Blank, Blank, <<"1", ".", "0">>, <<"0">>), Blank, Blank, <<>>)

\* bought on one of the first two days, sold on one of the last two
Windows == {<<b, s>> : b \in {0, 1}, s \in {MaxDay - 1, MaxDay}}

\* two periods on the days, in every usage
TwoPeriodForms ==
    {Form(Gain, IsoText(w[1]), IsoText(w[2]), <<r1, r2>>) :
        w \in Windows, r1 \in ValidRows, r2 \in ValidRows}

\* one period on any two days, alone or after a blank row
OnePeriodForms ==
    {Form(Gain, b, s, rows) :
        b \in IsoTexts, s \in IsoTexts,
        rows \in {<<r>> : r \in AnyRows} \cup {<<BlankRow, r>> : r \in ValidRows}}

\* the texts: any two texts for the holding window, or for a period
TextForms ==
    {Form(Gain, b, s, rows) :
        b \in DateTexts, s \in DateTexts,
        rows \in {<<>>, <<BlankRow>>, <<Row("main", IsoText(0), IsoText(MaxDay),
                                         [usage |-> "main", taxable_pct |-> Blank])>>}}
    \cup
    {Form(Gain, IsoText(0), IsoText(MaxDay), <<r>>) : r \in TextRows}

\* the other sales
SaleForms ==
    {Form(sale, b, s, rows) :
        sale \in OtherSales, b \in IsoTexts, s \in IsoTexts,
        rows \in {<<>>} \cup {<<r>> : r \in ValidRows}}

Forms == TwoPeriodForms \cup OnePeriodForms \cup TextForms \cup SaleForms

\* up to MaxPeriods main-residence periods on the days
RECURSIVE RowLists(_)
RowLists(n) ==
    IF n = 0 THEN {<<>>}
    ELSE LET shorter == RowLists(n - 1)
         IN  shorter \cup
             {Append(rows, Row("", IsoText(p[1]), IsoText(p[2]),
                               [usage |-> "main", taxable_pct |-> Blank])) :
                 rows \in {l \in shorter : Len(l) = n - 1}, p \in Intervals}

\* held over all the days, or from the second to the last but one
ManyPeriodForms ==
    {Form(Gain, IsoText(w[1]), IsoText(w[2]), rows) :
        w \in {<<0, MaxDay>>, <<1, MaxDay - 1>>}, rows \in RowLists(MaxPeriods)}

\* =====================================================================
\* The state: a request and what the operation run on it produced.
\* =====================================================================
VARIABLES
    method,     \* the request method
    form,       \* the submitted form
    op,         \* the operation that ran: "none" before
    error,      \* the error rendered, or the exception raised; None
    warnings,   \* the warnings rendered or returned
    result,     \* the result rendered or returned; None
    calls       \* the functions of main.py called, in order

vars == <<method, form, op, error, warnings, result, calls>>

Fresh ==
    /\ op = "none"
    /\ error = None
    /\ warnings = <<>>
    /\ result = None
    /\ calls = <<>>

Init ==
    /\ \/ method = "POST" /\ form \in Forms
       \/ method = "GET" /\ form = EmptyForm
    /\ Fresh

InitValidate ==
    /\ method = "POST"
    /\ form \in ManyPeriodForms
    /\ Fresh

\* a request to index
Index ==
    /\ op = "none"
    /\ \E page \in {index(method, form)} :
           /\ error' = page.error
           /\ warnings' = page.warnings
           /\ result' = page.result
           /\ calls' = page.calls
    /\ op' = "index"
    /\ UNCHANGED <<method, form>>

\* a call of validate_periods with the arguments the form gives
ValidatePeriods ==
    /\ op = "none"
    /\ method = "POST"
    /\ \E args \in {Collect(form)} :
           /\ ~args.raised
           /\ \E v \in {validate_periods(args.value.buy_date, args.value.sell_date,
                                         args.value.periods)} :
                  /\ error' = v.error
                  /\ warnings' = IF v.raised THEN <<>> ELSE v.value
    /\ result' = None
    /\ calls' = <<"validate_periods">>
    /\ op' = "validate_periods"
    /\ UNCHANGED <<method, form>>

\* a call of calculate_cgt_periods with the arguments the form gives
CalculateCgtPeriods ==
    /\ op = "none"
    /\ method = "POST"
    /\ \E args \in {Collect(form)} :
           /\ ~args.raised
           /\ \E r \in {Calculate(args.value)} :
                  /\ error' = r.error
                  /\ result' = r.value
    /\ warnings' = <<>>
    /\ calls' = <<"calculate_cgt_periods">>
    /\ op' = "calculate_cgt_periods"
    /\ UNCHANGED <<method, form>>

Next == Index \/ ValidatePeriods \/ CalculateCgtPeriods

Spec == Init /\ [][Next]_vars

SpecValidate == InitValidate /\ [][ValidatePeriods]_vars

\* =====================================================================
\* The properties.  Each is stated on the state an operation leaves: the
\* form it ran on, and what it raised, returned or rendered.
\* =====================================================================
\* the form gives the arguments of validate_periods and calculate_cgt_periods
Submitted == method = "POST" /\ ~Collect(form).raised

\* the arguments with their dates parsed: the holding window and the
\* periods in input order
Request ==
    LET a == Collect(form).value
    IN  [buy     |-> parse_date(a.buy_date),
         sell    |-> parse_date(a.sell_date),
         periods |-> [i \in DOMAIN a.periods |->
                         [label          |-> a.periods[i].label,
                          start          |-> parse_date(a.periods[i].start),
                          end            |-> parse_date(a.periods[i].end),
                          taxable_factor |-> a.periods[i].taxable_factor]]]

\* a <= b and abs(a) of floats
FLeq(a, b) == FSub(a, b).man = <<>> \/ FSub(a, b).sgn < 0

FAbs(a) == [a EXCEPT !.sgn = 1]

WellDated(q) ==
    /\ q.buy.ok /\ q.sell.ok
    /\ \A i \in DOMAIN q.periods : q.periods[i].start.ok /\ q.periods[i].end.ok

ValidWindow(q) == q.sell.date > q.buy.date

ValidPeriods(q) ==
    /\ q.periods /= <<>>
    /\ \A i \in DOMAIN q.periods : q.periods[i].end.date > q.periods[i].start.date

FactorsInUnit(q) ==
    \A i \in DOMAIN q.periods :
        /\ FLeq(FZero, q.periods[i].taxable_factor)
        /\ FLeq(q.periods[i].taxable_factor, FromInt(1))

\* the days common to periods i and j
Common(q, i, j) ==
    Min(q.periods[i].end.date, q.periods[j].end.date)
        - Max(q.periods[i].start.date, q.periods[j].start.date)

Disjoint(q) ==
    \A i, j \in DOMAIN q.periods : i < j => Common(q, i, j) <= 0

\* every day of the holding window is a day of some period
Covering(q) ==
    \A d \in q.buy.date .. (q.sell.date - 1) :
        \E i \in DOMAIN q.periods :
            q.periods[i].start.date <= d /\ d < q.periods[i].end.date

\* every period lies inside the holding window
Inside(q) ==
    \A i \in DOMAIN q.periods :
        q.buy.date <= q.periods[i].start.date /\ q.periods[i].end.date <= q.sell.date

LatestEnd(q) ==
    CHOOSE e \in {q.periods[i].end.date : i \in DOMAIN q.periods} :
        \A i \in DOMAIN q.periods : q.periods[i].end.date <= e

IsGapAfter(w) == w.kind = "gap AFTER the last period"

IsOverlap(w) == w.kind = "overlap"

IsPairWarning(w) == w.kind \in {"overlap", "gap between"}

\* C1: when the periods are valid, have factors in [0,1], do not overlap and
\* cover the holding window, calculate_cgt_periods returns Uncovered days
\* == 0 and Taxable days + Exempt days == Holding days.
C1_CoveredWindowLeavesNothingUncovered ==
    (op = "calculate_cgt_periods" /\ Submitted) =>
        LET q == Request
        IN  ( /\ WellDated(q) /\ ValidWindow(q) /\ ValidPeriods(q)
              /\ FactorsInUnit(q) /\ Disjoint(q) /\ Covering(q) )
            => /\ error = None
               /\ result["Uncovered days"] = FZero
               /\ FAdd(result["Taxable days"], result["Exempt days"])
                      = FromInt(result["Holding days"])

\* C2: in every result calculate_cgt_periods returns, the returned Taxable
\* fraction and Exempt fraction, each rounded to 4 places, add up to 1.
C2_ReturnedFractionsSumToOne ==
    (op = "calculate_cgt_periods" /\ error = None) =>
        FAdd(result["Taxable fraction"], result["Exempt fraction"]) = FromInt(1)

\* C3: whenever the response index renders to a POST holds an error, it
\* holds no result and no warnings.
C3_ErrorLeavesNothingElse ==
    (op = "index" /\ method = "POST" /\ error /= None) =>
        (result = None /\ warnings = <<>>)

\* C4: validate_periods warns of a gap AFTER the last period exactly when
\* the latest end date of all periods is before the sell date, and counts
\* the days from that latest end to the sell date.
C4_AfterGapFollowsLatestEnd ==
    (op = "validate_periods" /\ error = None) =>
        LET q      == Request
            sell   == q.sell.date
            latest == LatestEnd(q)
        IN  /\ (\E n \in DOMAIN warnings : IsGapAfter(warnings[n])) <=> latest < sell
            /\ \A n \in DOMAIN warnings :
                   IsGapAfter(warnings[n]) => warnings[n].days = sell - latest

\* C5: for two valid periods inside the holding window that cover it and
\* have k > 0 days in common, the response of index holds an overlap
\* warning naming both labels with k days, and Uncovered days == -k.
C5_OverlapCountedOnce ==
    (op = "index" /\ Submitted) =>
        LET q == Request
        IN  ( /\ WellDated(q) /\ ValidWindow(q) /\ ValidPeriods(q)
              /\ Len(q.periods) = 2 /\ Inside(q) /\ Covering(q)
              /\ Common(q, 1, 2) > 0 )
            => /\ error = None
               /\ \E n \in DOMAIN warnings :
                      /\ IsOverlap(warnings[n])
                      /\ {warnings[n].first, warnings[n].second}
                             = {q.periods[1].label, q.periods[2].label}
                      /\ warnings[n].days = Common(q, 1, 2)
               /\ result["Uncovered days"] = FNeg(FromInt(Common(q, 1, 2)))

\* C6: validate_periods on an empty period list raises the no-periods
\* error whatever the buy and sell date texts are, never a date-format
\* error and never warnings; index then renders that error after calling
\* validate_periods only.
C6_EmptyListFailsFirst ==
    (op \in {"validate_periods", "index"} /\ Submitted /\ Collect(form).value.periods = <<>>)
        => /\ error = NoPeriods
           /\ warnings = <<>>
           /\ result = None
           /\ calls = <<"validate_periods">>

\* index was given no period and a buy date that is no date
C6_EmptyListWithBadDateSeen ==
    /\ op = "index"
    /\ Submitted
    /\ Collect(form).value.periods = <<>>
    /\ ~parse_date(Collect(form).value.buy_date).ok
    /\ error = NoPeriods
    /\ calls = <<"validate_periods">>

\* C7: every entry of the Period breakdown has overlap_days ==
\* max(0, min(sell, end) - max(buy, start)), which is never negative, and
\* taxable_days + exempt_days == overlap_days.
C7_BreakdownSplitsOverlapDays ==
    (op = "calculate_cgt_periods" /\ error = None) =>
        LET q == Request
        IN  \A i \in DOMAIN result["Period breakdown"] :
                LET entry == result["Period breakdown"][i]
                    p     == q.periods[i]
                IN  /\ entry.overlap_days
                           = Max(0, Min(q.sell.date, p.end.date)
                                        - Max(q.buy.date, p.start.date))
                    /\ entry.overlap_days >= 0
                    /\ FAdd(entry.taxable_days, entry.exempt_days)
                           = FromInt(entry.overlap_days)

\* the periods sorted before period j: an earlier start, or the same start
\* and earlier in the input
Before(q, j) ==
    {i \in DOMAIN q.periods :
        \/ q.periods[i].start.date < q.periods[j].start.date
        \/ q.periods[i].start.date = q.periods[j].start.date /\ i < j}

\* the period j is compared with: of those sorted before it, the first
\* with the latest end
Frontier(q, j) ==
    CHOOSE i \in Before(q, j) :
        \A h \in Before(q, j) \ {i} :
            \/ q.periods[h].end.date < q.periods[i].end.date
            \/ q.periods[h].end.date = q.periods[i].end.date /\ i \in Before(q, h)

\* the warning about period j, if any
PairWarning(q, j) ==
    LET f   == q.periods[Frontier(q, j)]
        cur == q.periods[j]
    IN  IF cur.start.date < f.end.date
        THEN <<Overlap(f.label, cur.label, f.end.date - cur.start.date)>>
        ELSE IF cur.start.date > f.end.date
        THEN <<GapBetween(f.label, cur.label, cur.start.date - f.end.date)>>
        ELSE <<>>

\* the period a warning is about, by its label
Compared(q, w) == CHOOSE j \in DOMAIN q.periods : q.periods[j].label = w.second

\* C8: the overlap and gap-between warnings of validate_periods are, in
\* sorted order (by start, ties in input order), one per period after the
\* first: against the first period of latest end sorted before it, an
\* overlap of frontier.end - start days when it starts before that end, a
\* gap of start - frontier.end days when it starts after it, and nothing
\* when it starts on it.
C8_PairWarningsFollowFrontier ==
    (op = "validate_periods" /\ error = None) =>
        LET q     == Request
            pairs == {n \in DOMAIN warnings : IsPairWarning(warnings[n])}
        IN  /\ \A n \in pairs :
                   \E j \in DOMAIN q.periods : q.periods[j].label = warnings[n].second
            /\ \A j \in DOMAIN q.periods :
                   LET about == {n \in pairs : warnings[n].second = q.periods[j].label}
                   IN  IF Before(q, j) = {} THEN about = {}
                       ELSE /\ Cardinality(about) = Len(PairWarning(q, j))
                            /\ \A n \in about : warnings[n] = PairWarning(q, j)[1]
            /\ \A m, n \in pairs :
                   m < n => Compared(q, warnings[m]) \in Before(q, Compared(q, warnings[n]))

\* a period nested in the first one did not become the frontier: the
\* third period, which starts where the second ends, overlaps the first
C8_NestedPeriodKeepsFrontierSeen ==
    /\ op = "validate_periods"
    /\ error = None
    /\ \E m, n \in DOMAIN warnings :
           /\ m < n
           /\ warnings[m] = Overlap(PeriodLabel(1), PeriodLabel(2), 2)
           /\ warnings[n] = Overlap(PeriodLabel(1), PeriodLabel(3), 1)
    /\ LET q == Request
       IN  q.periods[3].start.date = q.periods[2].end.date

\* C9: when validate_periods returns no warning and calculate_cgt_periods
\* a result, index renders Uncovered days == 0.
C9_NoWarningMeansNothingUncovered ==
    (op = "index" /\ method = "POST" /\ error = None /\ warnings = <<>>) =>
        result["Uncovered days"] = FZero

\* C10: when the factors are in [0,1] and validate_periods returns no
\* overlap warning, the result index renders has Taxable days + Exempt days
\* <= Holding days, Uncovered days >= 0, the unrounded taxable fraction in
\* [0,1] and a taxable gain before discount no larger in magnitude than
\* the ownership-adjusted gain.
C10_NoOverlapKeepsTotalsInWindow ==
    (op = "index" /\ method = "POST" /\ error = None) =>
        LET q == Request
        IN  (FactorsInUnit(q) /\ \A n \in DOMAIN warnings : ~IsOverlap(warnings[n]))
            => LET taxable_fraction ==
                       FDivInt(result["Taxable days"], result["Holding days"])
               IN  /\ FLeq(FAdd(result["Taxable days"], result["Exempt days"]),
                           FromInt(result["Holding days"]))
                   /\ FLeq(FZero, result["Uncovered days"])
                   /\ FLeq(FZero, taxable_fraction)
                   /\ FLeq(taxable_fraction, FromInt(1))
                   /\ FLeq(FAbs(result["Taxable gain before discount"]),
                           FAbs(result["Ownership adjusted gain"]))

====
